---- MODULE Spec2Model ----
(***************************************************************************)
(* A model of the bison-py build scripts (pdm_build.py, setup.py) and of   *)
(* the runtime locator (bison_bin/runtime.py, bison_bin/_wrapper.py).      *)
(*                                                                         *)
(* Four specifications share the variables:                                *)
(*   Spec          a sequence of builds (pdm sdist/wheel hook, or the      *)
(*                 setuptools build_bison/build_py commands), one step per *)
(*                 statement group of the scripts;                         *)
(*   SpecExtract   _extract applied to every bounded archive;              *)
(*   SpecDiscover  discover_latest applied to every bounded listing;       *)
(*   SpecRuntime   the runtime locator's entry points under every bounded  *)
(*                 environment and file system.                            *)
(***************************************************************************)
EXTENDS Integers, Sequences, FiniteSets, TLC

VARIABLES
    mode,        \* "pdm" (pdm_build.py) or "setup" (setup.py): the script that builds
    pc,          \* position of the build in the script
    target,      \* pdm: context.target, "sdist" or "wheel"
    proj,        \* the project of the current _build_tar_project call
    builds,      \* number of builds started so far
    fs,          \* the files and directories the scripts touch
    srcRoot,     \* src_root of the current _build_tar_project call (relative to workdir)
    err,         \* the exception that ended the build, "none" if none
    log,         \* child processes of the current build, in order, with exit status
    callSpawns,  \* child processes spawned by the current _build_tar_project call
    fetches,     \* per project, tarball downloads performed so far (all builds)
    failedGens,  \* builds that an exception ended
    atStart,     \* the source archives as they were when the current build started
    staged,      \* the current build handed a payload to the packaging layer
    stripLeft,   \* setup: binaries _strip_binaries still has to visit
    ex,          \* SpecExtract: input and result of one _extract call
    dl,          \* SpecDiscover: input and result of the version resolution
    rt           \* SpecRuntime: environment, file system and last call's outcome

buildVars == <<mode, pc, target, proj, builds, fs, srcRoot, err, log, callSpawns,
               fetches, failedGens, atStart, staged, stripLeft>>
vars == <<mode, pc, target, proj, builds, fs, srcRoot, err, log, callSpawns,
          fetches, failedGens, atStart, staged, stripLeft, ex, dl, rt>>

(***************************************************************************)
(* Bounds of the model.                                                    *)
(***************************************************************************)
MaxMembers == 2   \* members of one archive
MaxBuilds == 2    \* builds run one after the other
MaxListing == 3   \* file names in one release listing

(***************************************************************************)
(* Files, archives and directory trees.                                    *)
(***************************************************************************)
\* A tar member or a directory entry: a relative path and its kind.
Member(p, k) == [path |-> p, kind |-> k]

Members ==
    { Member(<<"pkg">>, "dir"), Member(<<"pkg", "configure">>, "file"),
      Member(<<"configure">>, "file"), Member(<<"README">>, "file"),
      Member(<<"lib">>, "dir") }

Archives == { a \in SUBSET Members : Cardinality(a) <= MaxMembers }

\* A file slot that may hold a tarball: absent, a readable archive, or bytes
\* that are no archive (requests.get / urlopen write whatever the server sent).
Absent == [present |-> FALSE, valid |-> FALSE, members |-> {}]
Tar(a) == [present |-> TRUE, valid |-> TRUE, members |-> a]
CorruptFile == [present |-> TRUE, valid |-> FALSE, members |-> {}]
Tarballs == { Tar(a) : a \in Archives } \cup { CorruptFile }

\* A directory: whether it exists and the entries below it.
NoDir == [exists |-> FALSE, entries |-> {}]
EmptyDir == [exists |-> TRUE, entries |-> {}]

\* Path.exists() of target / path
PathExists(entries, path) == \E e \in entries : e.path = path

\* tf.extractall(target): every member, and the parent directories it implies
ExtractAll(members) ==
    members \cup { Member(<<m.path[1]>>, "dir") : m \in { x \in members : Len(x.path) > 1 } }

\* _extract without the rmtree: the archive is unpacked over what was there
ExtractMerge(archive, tgt) ==
    IF ~archive.valid
    THEN [target |-> [exists |-> TRUE, entries |-> tgt.entries], root |-> <<>>, raised |-> TRUE]
    ELSE LET entries == tgt.entries \cup ExtractAll(archive.members)
             tops == { m.path[1] : m \in archive.members }
             roots == { <<name>> : name \in { n \in tops : PathExists(entries, <<n>>) } }
         IN [target |-> [exists |-> TRUE, entries |-> entries],
             root |-> IF Cardinality(roots) = 1 THEN CHOOSE r \in roots : TRUE ELSE <<>>,
             raised |-> FALSE]

\* _extract(archive, target): the target after the call, the returned root
\* (relative to target, <<>> for target itself), and whether tarfile.open raised
_extract(archive, tgt) ==
    IF ~archive.valid
    THEN [target |-> EmptyDir, root |-> <<>>, raised |-> TRUE]
    ELSE LET entries == ExtractAll(archive.members)
             tops == { m.path[1] : m \in archive.members }
             roots == { <<name>> : name \in { n \in tops : PathExists(entries, <<n>>) } }
         IN [target |-> [exists |-> TRUE, entries |-> entries],
             root |-> IF Cardinality(roots) = 1 THEN CHOOSE r \in roots : TRUE ELSE <<>>,
             raised |-> FALSE]

(***************************************************************************)
(* SpecExtract: one _extract call on every bounded archive and target.     *)
(***************************************************************************)
StaleEntries == { Member(<<"a.txt">>, "file"), Member(<<"pkg">>, "file") }
PriorTargets == { NoDir } \cup { [exists |-> TRUE, entries |-> s] : s \in SUBSET StaleEntries }

ExIdle == [archive |-> Absent, prior |-> NoDir, target |-> NoDir, root |-> <<>>, state |-> "idle"]

ExtractCall ==
    /\ ex.state = "ready"
    /\ LET r == _extract(ex.archive, ex.target)
       IN ex' = [ex EXCEPT !.target = r.target, !.root = r.root,
                           !.state = IF r.raised THEN "raised" ELSE "returned"]
    /\ UNCHANGED <<buildVars, dl, rt>>

(***************************************************************************)
(* The build: files, child processes and the steps of the two scripts.     *)
(***************************************************************************)
Projects == {"m4", "bison"}

\* What a project's "make install" puts below its prefix.
InstallTree(p) ==
    IF p = "m4"
    THEN { [dir |-> "bin", name |-> "m4"] }
    ELSE { [dir |-> "bin", name |-> "bison"], [dir |-> "bin", name |-> "yacc"],
           [dir |-> "share", name |-> "README"] }

\* An installed file, tagged with the build whose "make install" wrote it.
Written(files, gen) == { [dir |-> f.dir, name |-> f.name, gen |-> gen] : f \in files }

\* A file left in the payload directory by something before the first build.
StaleFile == [dir |-> "", name |-> "a.txt", gen |-> 0]

GoodArchive == { Member(<<"pkg">>, "dir"), Member(<<"pkg", "configure">>, "file") }

\* The configure test left out: every source root passes
ConfigureNotTested(entries, root) == TRUE

\* (src_root / "configure").exists(); the same test in both scripts
ConfigureExists(entries, root) == PathExists(entries, root \o <<"configure">>)

\* subprocess.call in place of check_call: the exit status is dropped
RunIgnoresStatus(status) == FALSE

\* _run: subprocess.check_call raises CalledProcessError on a non-zero exit
_run(status) == status # 0

ExitStatuses == {0, 1}

Ended == pc \in {"idle", "done", "failed"}

Snapshot(f) == [vendored |-> f.vendored, cache |-> f.cache, downloads |-> f.downloads]

\* Bookkeeping at the start of a build.
BeginBuild ==
    /\ Ended
    /\ builds < MaxBuilds
    /\ builds' = builds + 1
    /\ log' = <<>>
    /\ staged' = FALSE
    /\ callSpawns' = 0
    /\ srcRoot' = <<>>
    /\ stripLeft' = {}
    /\ atStart' = Snapshot(fs)

Raise(e) == pc' = "failed" /\ err' = e /\ failedGens' = failedGens \cup {builds}

\* The bodies the release server may send for a tarball URL: a release with one
\* top-level directory, a flat one, archives without a configure script (one of
\* them a single regular file), and bytes that are no archive.
ServedTarballs ==
    { Tar(GoodArchive),
      Tar({ Member(<<"configure">>, "file"), Member(<<"README">>, "file") }),
      Tar({ Member(<<"pkg">>, "dir") }),
      Tar({ Member(<<"README">>, "file") }),
      CorruptFile }

\* What the network hands to one download: a body, or nothing when the request raised.
Responses == ServedTarballs \cup { Absent }

(***************************************************************************)
(* pdm_build.py                                                            *)
(***************************************************************************)
\* _ensure_vendored_tarball without the exists() test: downloads every time
EnsureVendoredAlways(vend, got) ==
    [vendored |-> IF got.present THEN got ELSE vend, fetched |-> got.present, raised |-> ~got.present]

\* _ensure_vendored_tarball(): the vendored slot afterwards, given the response
\* a download would get
_ensure_vendored_tarball(vend, got) ==
    IF vend.present
    THEN [vendored |-> vend, fetched |-> FALSE, raised |-> FALSE]
    ELSE [vendored |-> got, fetched |-> got.present, raised |-> ~got.present]

\* pdm_build_initialize, context.target == "sdist"
pdm_build_initialize_sdist ==
    /\ mode = "pdm"
    /\ BeginBuild
    /\ target' = "sdist"
    /\ \E got \in Responses :
         LET r == _ensure_vendored_tarball(fs.vendored, got)
         IN /\ fs' = [fs EXCEPT !.vendored = r.vendored]
            /\ fetches' = IF r.fetched THEN [fetches EXCEPT !["bison"] = @ + 1] ELSE fetches
            /\ pc' = IF r.raised THEN "failed" ELSE "packaging"
            /\ err' = IF r.raised THEN "download" ELSE "none"
            /\ failedGens' = IF r.raised THEN failedGens \cup {builds + 1} ELSE failedGens
    /\ UNCHANGED <<mode, proj, ex, dl, rt>>

\* pdm_build_initialize, wheel: rmtree(build_dir), ensure_build_dir(), mkdir of the cache directory
pdm_build_initialize_wheel ==
    /\ mode = "pdm"
    /\ BeginBuild
    /\ target' = "wheel"
    /\ fs' = [fs EXCEPT !.buildDir = TRUE, !.cacheDir = TRUE, !.cache = Absent,
                        !.stage = FALSE, !.work = NoDir,
                        !.downloads = [p \in Projects |-> Absent],
                        !.payload = NoDir]
    /\ pc' = "pdm_acquire"
    /\ err' = "none"
    /\ UNCHANGED <<mode, proj, fetches, failedGens, ex, dl, rt>>

\* pdm_build_initialize: the vendored tarball is moved into the cache, else downloaded
pdm_acquire ==
    /\ pc = "pdm_acquire"
    /\ IF fs.vendored.present
       THEN /\ fs' = [fs EXCEPT !.cache = fs.vendored, !.vendored = Absent]
            /\ pc' = "bb_reset"
            /\ UNCHANGED <<fetches, err, failedGens>>
       ELSE IF ~fs.cache.present
       THEN \E got \in Responses :
              /\ fs' = [fs EXCEPT !.cache = got]
              /\ fetches' = IF got.present THEN [fetches EXCEPT !["bison"] = @ + 1] ELSE fetches
              /\ IF got.present
                 THEN pc' = "bb_reset" /\ UNCHANGED <<err, failedGens>>
                 ELSE Raise("download")
       ELSE /\ pc' = "bb_reset"
            /\ UNCHANGED <<fs, fetches, err, failedGens>>
    /\ UNCHANGED <<mode, target, proj, builds, srcRoot, log, callSpawns,
                   atStart, staged, stripLeft, ex, dl, rt>>

\* build_bison(stage_root, install_prefix, archive=cache_tarball) up to the call of _build_tar_project
pdm_build_bison ==
    /\ pc = "bb_reset"
    /\ fs' = [fs EXCEPT !.stage = TRUE, !.work = EmptyDir,
                        !.downloads = [p \in Projects |-> Absent]]
    /\ proj' = "bison"
    /\ callSpawns' = 0
    /\ pc' = "pdm_extract"
    /\ UNCHANGED <<mode, target, builds, srcRoot, err, log, fetches, failedGens,
                   atStart, staged, stripLeft, ex, dl, rt>>

\* _build_tar_project: src_root = _extract(archive, workdir)
pdm_extract_step ==
    /\ pc = "pdm_extract"
    /\ LET r == _extract(fs.cache, fs.work)
       IN /\ fs' = [fs EXCEPT !.work = r.target]
          /\ srcRoot' = r.root
          /\ IF r.raised
             THEN Raise("extract")
             ELSE pc' = "pdm_check" /\ UNCHANGED <<err, failedGens>>
    /\ UNCHANGED <<mode, target, proj, builds, log, callSpawns, fetches,
                   atStart, staged, stripLeft, ex, dl, rt>>

\* _build_tar_project: the configure test, then prefix.mkdir
pdm_check_configure ==
    /\ pc = "pdm_check"
    /\ IF ~ConfigureExists(fs.work.entries, srcRoot)
       THEN /\ Raise("MissingConfigure")
            /\ UNCHANGED fs
       ELSE /\ fs' = [fs EXCEPT !.payload = [exists |-> TRUE, entries |-> fs.payload.entries]]
            /\ pc' = "pdm_configure"
            /\ UNCHANGED <<err, failedGens>>
    /\ UNCHANGED <<mode, target, proj, builds, srcRoot, log, callSpawns, fetches,
                   atStart, staged, stripLeft, ex, dl, rt>>

\* One _run of the pdm build: the child is spawned and waited for.
PdmRun(cmd, next, status) ==
    /\ log' = Append(log, [proj |-> proj, cmd |-> cmd, status |-> status])
    /\ callSpawns' = callSpawns + 1
    /\ IF _run(status)
       THEN Raise(cmd)
       ELSE /\ pc' = next
            /\ UNCHANGED <<err, failedGens>>

\* _run(["bash", "./configure", ...])
pdm_configure ==
    /\ pc = "pdm_configure"
    /\ \E st \in ExitStatuses : PdmRun("configure", "pdm_make", st)
    /\ UNCHANGED <<mode, target, proj, builds, fs, srcRoot, fetches, atStart, staged,
                   stripLeft, ex, dl, rt>>

\* _run(["make"])
pdm_make ==
    /\ pc = "pdm_make"
    /\ \E st \in ExitStatuses : PdmRun("make", "pdm_install", st)
    /\ UNCHANGED <<mode, target, proj, builds, fs, srcRoot, fetches, atStart, staged,
                   stripLeft, ex, dl, rt>>

\* _run(["make", "install"]): installs below the prefix, which is the payload
\* directory; a failing install has written any part of the tree
pdm_install ==
    /\ pc = "pdm_install"
    /\ \E st \in ExitStatuses, files \in SUBSET InstallTree("bison") :
         /\ st = 0 => files = InstallTree("bison")
         /\ fs' = [fs EXCEPT !.payload.entries = @ \cup Written(files, builds)]
         /\ PdmRun("install", "pdm_cleanup", st)
    /\ UNCHANGED <<mode, target, proj, builds, srcRoot, fetches, atStart, staged,
                   stripLeft, ex, dl, rt>>

\* pdm_build_initialize after build_bison returned: rmtree(stage_root)
pdm_cleanup ==
    /\ pc = "pdm_cleanup"
    /\ fs' = [fs EXCEPT !.stage = FALSE, !.work = NoDir,
                        !.downloads = [p \in Projects |-> Absent]]
    /\ staged' = TRUE
    /\ pc' = "packaging"
    /\ UNCHANGED <<mode, target, proj, builds, srcRoot, err, log, callSpawns, fetches,
                   failedGens, atStart, stripLeft, ex, dl, rt>>

\* pdm_build_finalize: pass
pdm_build_finalize ==
    /\ pc = "packaging"
    /\ pc' = "done"
    /\ UNCHANGED <<mode, target, proj, builds, fs, srcRoot, err, log, callSpawns, fetches,
                   failedGens, atStart, staged, stripLeft, ex, dl, rt>>

(***************************************************************************)
(* setup.py                                                                *)
(***************************************************************************)
\* BuildPyWithBison.run -> run_command("build_bison") -> build_bison.run up to
\* the first _build_tar_project: rmtree(stage_root), mkdir work and downloads
setup_build_bison_run ==
    /\ mode = "setup"
    /\ BeginBuild
    /\ fs' = [fs EXCEPT !.stage = TRUE, !.work = EmptyDir,
                        !.downloads = [p \in Projects |-> Absent],
                        !.prefix = [p \in Projects |-> NoDir]]
    /\ proj' = "m4"
    /\ pc' = "s_acquire"
    /\ err' = "none"
    /\ UNCHANGED <<mode, target, fetches, failedGens, ex, dl, rt>>

\* build_bison._build_tar_project: download unless archive_path exists. urlopen
\* may raise before the file is opened, or the copy may break off and leave a
\* partial file behind
setup_acquire ==
    /\ pc = "s_acquire"
    /\ callSpawns' = 0
    /\ IF ~fs.downloads[proj].present
       THEN \/ \E got \in ServedTarballs :
                 /\ fs' = [fs EXCEPT !.downloads[proj] = got]
                 /\ fetches' = [fetches EXCEPT ![proj] = @ + 1]
                 /\ pc' = "s_extract"
                 /\ UNCHANGED <<err, failedGens>>
            \/ \E left \in {Absent, CorruptFile} :
                 /\ fs' = [fs EXCEPT !.downloads[proj] = left]
                 /\ Raise("download")
                 /\ UNCHANGED fetches
       ELSE /\ pc' = "s_extract"
            /\ UNCHANGED <<fs, fetches, err, failedGens>>
    /\ UNCHANGED <<mode, target, proj, builds, srcRoot, log, atStart,
                   staged, stripLeft, ex, dl, rt>>

\* build_bison._build_tar_project: src_root = self._extract(archive_path, workdir)
setup_extract_step ==
    /\ pc = "s_extract"
    /\ LET r == _extract(fs.downloads[proj], fs.work)
       IN /\ fs' = [fs EXCEPT !.work = r.target]
          /\ srcRoot' = r.root
          /\ IF r.raised
             THEN Raise("extract")
             ELSE pc' = "s_check" /\ UNCHANGED <<err, failedGens>>
    /\ UNCHANGED <<mode, target, proj, builds, log, callSpawns, fetches,
                   atStart, staged, stripLeft, ex, dl, rt>>

\* build_bison._build_tar_project: the configure test, then prefix.mkdir
setup_check_configure ==
    /\ pc = "s_check"
    /\ IF ~ConfigureExists(fs.work.entries, srcRoot)
       THEN /\ Raise("MissingConfigure")
            /\ UNCHANGED fs
       ELSE /\ fs' = [fs EXCEPT !.prefix[proj] = [exists |-> TRUE, entries |-> @.entries]]
            /\ pc' = "s_configure"
            /\ UNCHANGED <<err, failedGens>>
    /\ UNCHANGED <<mode, target, proj, builds, srcRoot, log, callSpawns, fetches,
                   atStart, staged, stripLeft, ex, dl, rt>>

\* One self._run of the setuptools build.
SetupRun(cmd, next, status) ==
    /\ log' = Append(log, [proj |-> proj, cmd |-> cmd, status |-> status])
    /\ callSpawns' = callSpawns + 1
    /\ IF _run(status)
       THEN Raise(cmd)
       ELSE /\ pc' = next
            /\ UNCHANGED <<err, failedGens>>

\* self._run(["bash", "./configure", ...])
setup_configure ==
    /\ pc = "s_configure"
    /\ \E st \in ExitStatuses : SetupRun("configure", "s_make", st)
    /\ UNCHANGED <<mode, target, proj, builds, fs, srcRoot, fetches, atStart, staged,
                   stripLeft, ex, dl, rt>>

\* self._run(["make", f"-j{parallel}"])
setup_make ==
    /\ pc = "s_make"
    /\ \E st \in ExitStatuses : SetupRun("make", "s_install", st)
    /\ UNCHANGED <<mode, target, proj, builds, fs, srcRoot, fetches, atStart, staged,
                   stripLeft, ex, dl, rt>>

\* self._run(["make", "install"]): installs below stage_root/m4 or stage_root/install
setup_install ==
    /\ pc = "s_install"
    /\ \E st \in ExitStatuses, files \in SUBSET InstallTree(proj) :
         /\ st = 0 => files = InstallTree(proj)
         /\ fs' = [fs EXCEPT !.prefix[proj].entries = @ \cup Written(files, builds)]
         /\ SetupRun("install", "s_next", st)
    /\ UNCHANGED <<mode, target, proj, builds, srcRoot, fetches, atStart, staged,
                   stripLeft, ex, dl, rt>>

\* build_bison.run between and after the two _build_tar_project calls: m4 is
\* followed by bison; bison by _strip_binaries when BISON_BIN_STRIP is "1" and
\* shutil.which finds strip
setup_after_project ==
    /\ pc = "s_next"
    /\ IF proj = "m4"
       THEN /\ proj' = "bison"
            /\ pc' = "s_acquire"
            /\ UNCHANGED stripLeft
       ELSE /\ \E strip \in BOOLEAN :
                 stripLeft' = IF strip
                              THEN { f \in fs.prefix["bison"].entries : f.dir = "bin" }
                              ELSE {}
            /\ pc' = "s_strip"
            /\ UNCHANGED proj
    /\ UNCHANGED <<mode, target, builds, fs, srcRoot, err, log, callSpawns, fetches,
                   failedGens, atStart, staged, ex, dl, rt>>

\* _strip_binaries: one binary; CalledProcessError is swallowed
setup_strip_binary ==
    /\ pc = "s_strip"
    /\ stripLeft # {}
    /\ \E st \in ExitStatuses :
         /\ log' = Append(log, [proj |-> "bison", cmd |-> "strip", status |-> st])
         /\ stripLeft' = stripLeft \ { CHOOSE b \in stripLeft : TRUE }
    /\ UNCHANGED <<mode, pc, target, proj, builds, fs, srcRoot, err, callSpawns, fetches,
                   failedGens, atStart, staged, ex, dl, rt>>

\* BuildPyWithBison.run after build_bison returned: rmtree(target_root),
\* copytree(stage_dir, target_root)
setup_build_py_stage ==
    /\ pc = "s_strip"
    /\ stripLeft = {}
    /\ fs' = [fs EXCEPT !.payload = [exists |-> TRUE, entries |-> fs.prefix["bison"].entries]]
    /\ staged' = TRUE
    /\ pc' = "done"
    /\ UNCHANGED <<mode, target, proj, builds, srcRoot, err, log, callSpawns, fetches,
                   failedGens, atStart, stripLeft, ex, dl, rt>>

(***************************************************************************)
(* Spec: builds one after the other.                                       *)
(***************************************************************************)
\* Tarballs that may lie around before the first build.
SeedTarballs == { Absent, Tar(GoodArchive), Tar({ Member(<<"README">>, "file") }) }

PriorPayloads == { NoDir, [exists |-> TRUE, entries |-> {StaleFile}] }

IdleOthers ==
    /\ ex = ExIdle
    /\ dl = [state |-> "idle"]
    /\ rt = [state |-> "idle"]

InitPdm ==
    /\ mode = "pdm"
    /\ \E v \in SeedTarballs, c \in SeedTarballs, p \in PriorPayloads :
         fs = [vendored |-> v, buildDir |-> c.present \/ p.exists, cacheDir |-> c.present,
               cache |-> c, stage |-> FALSE, downloads |-> [q \in Projects |-> Absent],
               work |-> NoDir, prefix |-> [q \in Projects |-> NoDir], payload |-> p]

InitSetup ==
    /\ mode = "setup"
    /\ \E d \in SeedTarballs, p \in PriorPayloads :
         fs = [vendored |-> Absent, buildDir |-> FALSE, cacheDir |-> FALSE,
               cache |-> Absent, stage |-> d.present,
               downloads |-> [q \in Projects |-> IF q = "bison" THEN d ELSE Absent],
               work |-> IF d.present THEN EmptyDir ELSE NoDir,
               prefix |-> [q \in Projects |-> NoDir], payload |-> p]

Init ==
    /\ InitPdm \/ InitSetup
    /\ pc = "idle"
    /\ target = "none"
    /\ proj = "bison"
    /\ builds = 0
    /\ srcRoot = <<>>
    /\ err = "none"
    /\ log = <<>>
    /\ callSpawns = 0
    /\ fetches = [p \in Projects |-> 0]
    /\ failedGens = {}
    /\ atStart = Snapshot(fs)
    /\ staged = FALSE
    /\ stripLeft = {}
    /\ IdleOthers

Next ==
    \/ pdm_build_initialize_sdist
    \/ pdm_build_initialize_wheel
    \/ pdm_acquire
    \/ pdm_build_bison
    \/ pdm_extract_step
    \/ pdm_check_configure
    \/ pdm_configure
    \/ pdm_make
    \/ pdm_install
    \/ pdm_cleanup
    \/ pdm_build_finalize
    \/ setup_build_bison_run
    \/ setup_acquire
    \/ setup_extract_step
    \/ setup_check_configure
    \/ setup_configure
    \/ setup_make
    \/ setup_install
    \/ setup_after_project
    \/ setup_strip_binary
    \/ setup_build_py_stage

Spec == Init /\ [][Next]_vars

(***************************************************************************)
(* SpecExtract.                                                            *)
(***************************************************************************)
\* The build's variables while no build runs.
BuildOff ==
    /\ mode = "none"
    /\ pc = "off"
    /\ target = "none"
    /\ proj = "bison"
    /\ builds = 0
    /\ fs = [vendored |-> Absent, buildDir |-> FALSE, cacheDir |-> FALSE, cache |-> Absent,
             stage |-> FALSE, downloads |-> [q \in Projects |-> Absent], work |-> NoDir,
             prefix |-> [q \in Projects |-> NoDir], payload |-> NoDir]
    /\ srcRoot = <<>>
    /\ err = "none"
    /\ log = <<>>
    /\ callSpawns = 0
    /\ fetches = [p \in Projects |-> 0]
    /\ failedGens = {}
    /\ atStart = Snapshot(fs)
    /\ staged = FALSE
    /\ stripLeft = {}

InitExtract ==
    /\ BuildOff
    /\ \E a \in Tarballs, t \in PriorTargets :
         ex = [archive |-> a, prior |-> t, target |-> t, root |-> <<>>, state |-> "ready"]
    /\ dl = [state |-> "idle"]
    /\ rt = [state |-> "idle"]

NextExtract == ExtractCall

SpecExtract == InitExtract /\ [][NextExtract]_vars

(***************************************************************************)
(* SpecDiscover: setup.py's version resolution.                            *)
(* A file name of the listing is <project>-<rest>; rest is a sequence of   *)
(* characters, with the literal words of the suffixes kept as one token.   *)
(***************************************************************************)
DigitChars == <<"0", "1", "2", "3", "4", "5", "6", "7", "8", "9">>
IsDigit(c) == \E i \in 1..10 : DigitChars[i] = c
DigitVal(c) == (CHOOSE i \in 1..10 : DigitChars[i] = c) - 1

\* Length of the run of digits of s that starts at index i: what \d+ consumes.
RECURSIVE DigitRun(_, _)
DigitRun(s, i) ==
    IF i <= Len(s) /\ IsDigit(s[i]) THEN 1 + DigitRun(s, i + 1) ELSE 0

\* \.tar\.(?:gz|bz2|xz) at index i of s
TarSuffixAt(s, i) ==
    /\ i + 3 <= Len(s)
    /\ s[i] = "."
    /\ s[i + 1] = "tar"
    /\ s[i + 2] = "."
    /\ s[i + 3] \in {"gz", "bz2", "xz"}

\* The text group 1 captures when (\d+\.\d+(?:\.\d+)?)\.tar\.(?:gz|bz2|xz)
\* matches at the start of s, <<>> when it does not match.
VersionGroup(s) ==
    LET n1 == DigitRun(s, 1)
        n2 == DigitRun(s, n1 + 2)
        p2 == n1 + 1 + n2
        n3 == DigitRun(s, p2 + 2)
        p3 == p2 + 1 + n3
    IN IF n1 = 0 \/ n1 + 1 > Len(s) \/ s[n1 + 1] # "." \/ n2 = 0
       THEN <<>>
       ELSE IF p2 + 1 <= Len(s) /\ s[p2 + 1] = "." /\ n3 > 0 /\ TarSuffixAt(s, p3 + 1)
       THEN SubSeq(s, 1, p3)
       ELSE IF TarSuffixAt(s, p2 + 1)
       THEN SubSeq(s, 1, p2)
       ELSE <<>>

\* int(part) of a run of digits
RECURSIVE IntOf(_)
IntOf(ds) ==
    IF ds = <<>> THEN 0 ELSE 10 * IntOf(SubSeq(ds, 1, Len(ds) - 1)) + DigitVal(ds[Len(ds)])

\* _version_key: tuple(int(part) for part in re.findall(r"\d+", ver))
RECURSIVE VersionKeyFrom(_, _)
VersionKeyFrom(ver, i) ==
    IF i > Len(ver) THEN <<>>
    ELSE LET n == DigitRun(ver, i)
         IN IF n = 0 THEN VersionKeyFrom(ver, i + 1)
            ELSE <<IntOf(SubSeq(ver, i, i + n - 1))>> \o VersionKeyFrom(ver, i + n)

_version_key(ver) == VersionKeyFrom(ver, 1)

\* Python's order on tuples of integers: the first difference decides, a
\* proper prefix is smaller.
RECURSIVE TupleLE(_, _)
TupleLE(a, b) ==
    IF a = <<>> THEN TRUE
    ELSE IF b = <<>> THEN FALSE
    ELSE IF a[1] # b[1] THEN a[1] < b[1]
    ELSE TupleLE(Tail(a), Tail(b))

\* The code points of a version string: Python's order on str is the order
\* on these tuples ("." is 46, "0" is 48).
CodePoints(ver) == [i \in 1..Len(ver) |-> IF ver[i] = "." THEN 46 ELSE 48 + DigitVal(ver[i])]

\* sorted(versions)[-1]: the key is dropped and the strings are compared
SortedLastByString(versions) ==
    { v \in versions : \A w \in versions : TupleLE(CodePoints(w), CodePoints(v)) }

\* sorted(versions, key=_version_key)[-1]: the versions that can come last
\* (versions is a set, so versions with equal keys come in either order)
SortedLast(versions) ==
    { v \in versions : \A w \in versions : TupleLE(_version_key(w), _version_key(v)) }

\* {match.group(1) for match in pattern.finditer(body)}
MatchedVersions(project, listing) ==
    { VersionGroup(n.rest) : n \in { x \in listing : x.project = project } } \ { <<>> }

\* How a call ends: it returns a value, or an exception leaves it.
Returned(v) == [kind |-> "return", value |-> v]

\* discover_latest(project, fallback): the ways it may end. fetch is what
\* urlopen/read did: "ok", or an exception, which the except clause turns into
\* a return of fallback.
discover_latest(project, fallback, fetch, listing) ==
    IF fetch # "ok" THEN { Returned(fallback) }
    ELSE IF MatchedVersions(project, listing) = {} THEN { Returned(fallback) }
    ELSE { Returned(v) : v \in SortedLast(MatchedVersions(project, listing)) }

Name(p, r) == [project |-> p, rest |-> r]

FileNames ==
    { Name("bison", <<"3", ".", "7", ".", "1", ".", "tar", ".", "gz">>),
      Name("bison", <<"3", ".", "8", ".", "2", ".", "tar", ".", "xz">>),
      Name("bison", <<"3", ".", "1", "0", ".", "0", ".", "tar", ".", "bz2">>),
      Name("bison", <<"3", ".", "8", ".", "tar", ".", "gz">>),
      Name("bison", <<"3", ".", "0", "8", ".", "tar", ".", "xz">>),
      Name("bison", <<"3", ".", "8", ".", "2", ".", "tar", ".", "xz", ".", "sig">>),
      Name("bison", <<"1", ".", "2", ".", "3", ".", "4", ".", "tar", ".", "gz">>),
      Name("bison", <<"3", ".", "9", ".", "zip">>),
      Name("m4", <<"1", ".", "4", ".", "1", "9", ".", "tar", ".", "xz">>) }

Listings == { l \in SUBSET FileNames : Cardinality(l) <= MaxListing }

DEFAULT_BISON_FALLBACK == <<"3", ".", "8", ".", "2">>
DEFAULT_M4_VERSION == <<"1", ".", "4", ".", "1", "9">>

InitDiscover ==
    /\ BuildOff
    /\ ex = ExIdle
    /\ rt = [state |-> "idle"]
    /\ \E f \in {"ok", "urlopen raised", "read raised"}, l \in Listings,
          o \in { <<>>, <<"9", ".", "9">> } :
         /\ f # "ok" => l = {}
         /\ dl = [state |-> "ready", fetch |-> f, listing |-> l, override |-> o,
                  call |-> "none", project |-> "none", fallback |-> <<>>, result |-> <<>>]

\* A call discover_latest(project, fallback)
DiscoverCall ==
    /\ dl.state = "ready"
    /\ \E p \in Projects :
         LET fb == IF p = "m4" THEN DEFAULT_M4_VERSION ELSE DEFAULT_BISON_FALLBACK
         IN \E o \in discover_latest(p, fb, dl.fetch, dl.listing) :
              dl' = [dl EXCEPT !.state = IF o.kind = "return" THEN "returned" ELSE "raised",
                               !.call = "discover_latest",
                               !.project = p, !.fallback = fb, !.result = o.value]
    /\ UNCHANGED <<buildVars, ex, rt>>

\* BISON_VERSION = os.environ.get("BISON_VERSION") or discover_latest("bison", DEFAULT_BISON_FALLBACK)
ResolveBisonVersion ==
    /\ dl.state = "ready"
    /\ \E o \in IF dl.override # <<>> THEN { Returned(dl.override) }
                ELSE discover_latest("bison", DEFAULT_BISON_FALLBACK, dl.fetch, dl.listing) :
         dl' = [dl EXCEPT !.state = IF o.kind = "return" THEN "returned" ELSE "raised",
                          !.call = "BISON_VERSION", !.project = "bison",
                          !.fallback = DEFAULT_BISON_FALLBACK, !.result = o.value]
    /\ UNCHANGED <<buildVars, ex, rt>>

NextDiscover == DiscoverCall \/ ResolveBisonVersion

SpecDiscover == InitDiscover /\ [][NextDiscover]_vars

(***************************************************************************)
(* SpecRuntime: bison_bin/runtime.py, bison_bin/__init__.py and            *)
(* bison_bin/_wrapper.py. A path is absent, a file, or an executable file. *)
(***************************************************************************)
OverridePath == "/opt/bison"            \* a value of BISON_BIN_PATH
OverrideRoot == "/alt"                  \* a value of BISON_BIN_ROOT
RootBison == "/alt/bin/bison"
PackageBison == "PKG/_bison/bin/bison"  \* _PACKAGE_ROOT / "_bison" / "bin" / "bison"
PayloadBison == "PKG/_payload/bin/bison"
PayloadYacc == "PKG/_payload/bin/yacc"

RuntimePaths == { OverridePath, RootBison, PackageBison, PayloadBison, PayloadYacc }

\* The paths below the installed package or the root override.
DefaultPaths == { RootBison, PackageBison, PayloadBison, PayloadYacc }

Outcome(kind, value, names, probed) ==
    [kind |-> kind, value |-> value, names |-> names, probed |-> probed]

\* runtime.get_data_root() / "bin" / "bison"
DataRootBison(env) == IF env.BISON_BIN_ROOT # "" THEN RootBison ELSE PackageBison

\* runtime.get_binary_path(): the override is returned as it is
runtime_get_binary_path(env, files) ==
    IF env.BISON_BIN_PATH # ""
    THEN Outcome("return", env.BISON_BIN_PATH, "", {})
    ELSE LET candidate == DataRootBison(env)
         IN IF files[candidate] # "absent"
            THEN Outcome("return", candidate, "", {candidate})
            ELSE Outcome("raise", "Bundled bison binary is missing; reinstall bison-bin",
                         "", {candidate})

\* runtime.run_version(): FileNotFoundError of the child's start is replaced by one
\* with a fixed message; PermissionError carries the file name
runtime_run_version(env, files) ==
    LET b == runtime_get_binary_path(env, files)
    IN IF b.kind = "raise" THEN b
       ELSE IF files[b.value] = "absent"
       THEN Outcome("raise", "bison executable not found", "", b.probed \cup {b.value})
       ELSE IF files[b.value] = "file"
       THEN Outcome("raise", "Permission denied", b.value, b.probed \cup {b.value})
       ELSE Outcome("return", "version text", "", b.probed \cup {b.value})

\* runtime.ensure_runtime(): os.stat raises FileNotFoundError with the file name
runtime_ensure_runtime(env, files) ==
    LET b == runtime_get_binary_path(env, files)
    IN IF b.kind = "raise" THEN b
       ELSE IF files[b.value] = "absent"
       THEN Outcome("raise", "No such file or directory", b.value, b.probed \cup {b.value})
       ELSE Outcome("return", "", "", b.probed \cup {b.value})

\* __init__.get_binary_path() / get_yacc_path(): below the package, whatever the environment
init_get_binary_path == PayloadBison
init_get_yacc_path == PayloadYacc

\* _wrapper.main_bison / main_yacc for the binary path they computed
WrapperMain(binary, files) ==
    IF files[binary] = "absent"
    THEN Outcome("exit", "binary not found at", binary, {binary})
    ELSE IF files[binary] = "file"
    THEN Outcome("raise", "Permission denied", binary, {binary})
    ELSE Outcome("exec", binary, "", {binary})

main_bison(env, files) == WrapperMain(init_get_binary_path, files)
main_yacc(env, files) == WrapperMain(init_get_yacc_path, files)

Envs == [BISON_BIN_PATH : {"", OverridePath}, BISON_BIN_ROOT : {"", OverrideRoot}]

InitRuntime ==
    /\ BuildOff
    /\ ex = ExIdle
    /\ dl = [state |-> "idle"]
    /\ \E e \in Envs, f \in [RuntimePaths -> {"absent", "file", "exe"}] :
         rt = [state |-> "ready", env |-> e, files |-> f, call |-> "none",
               out |-> Outcome("none", "", "", {})]

Called(call, out) ==
    /\ rt.state = "ready"
    /\ rt' = [rt EXCEPT !.state = "called", !.call = call, !.out = out]
    /\ UNCHANGED <<buildVars, ex, dl>>

call_get_binary_path == Called("get_binary_path", runtime_get_binary_path(rt.env, rt.files))
call_run_version == Called("run_version", runtime_run_version(rt.env, rt.files))

\* ensure_runtime also sets the executable bits of a file that lacks them
call_ensure_runtime ==
    /\ rt.state = "ready"
    /\ LET out == runtime_ensure_runtime(rt.env, rt.files)
           b == runtime_get_binary_path(rt.env, rt.files)
       IN rt' = [rt EXCEPT !.state = "called", !.call = "ensure_runtime", !.out = out,
                           !.files = IF out.kind = "return"
                                     THEN [rt.files EXCEPT ![b.value] = "exe"]
                                     ELSE rt.files]
    /\ UNCHANGED <<buildVars, ex, dl>>

call_main_bison == Called("main_bison", main_bison(rt.env, rt.files))
call_main_yacc == Called("main_yacc", main_yacc(rt.env, rt.files))

NextRuntime ==
    \/ call_get_binary_path
    \/ call_run_version
    \/ call_ensure_runtime
    \/ call_main_bison
    \/ call_main_yacc

SpecRuntime == InitRuntime /\ [][NextRuntime]_vars

(***************************************************************************)
(* The claims.                                                             *)
(***************************************************************************)
BuildEnded == pc \in {"done", "failed"}

\* C1 (as stated): once a wheel or setuptools build has ended, with or without
\* an error, the stage directory and the tarball cache directory of the build
\* no longer exist.
C1_ScratchRemovedAfterBuild ==
    (BuildEnded /\ (mode = "setup" \/ target = "wheel")) => ~fs.stage /\ ~fs.cacheDir

\* C2 (as stated): in every state, the payload directory holds no file written
\* by a build that failed (only make install writes there, so a failed build
\* whose files are there is one whose make install exited non-zero).
C2_NoFileOfFailedBuildInPayload ==
    \A f \in fs.payload.entries : f.gen \notin failedGens

\* C3 (as stated): with BISON_BIN_PATH set to a path that does not exist, every
\* entry point fails with an error that names that path, and no path below the
\* package (or the root override) is looked up.
C3_MissingOverrideFailsNamingIt ==
    (rt.state = "called" /\ rt.env.BISON_BIN_PATH # ""
        /\ rt.files[rt.env.BISON_BIN_PATH] = "absent")
    => /\ rt.out.kind \in {"raise", "exit"}
       /\ rt.out.names = rt.env.BISON_BIN_PATH
       /\ rt.out.probed \cap DefaultPaths = {}

\* C4 (as stated, for sequences of builds none of which failed): the bison
\* tarball is downloaded at most once.
C4_TarballFetchedAtMostOnce == failedGens = {} => fetches["bison"] <= 1

\* C5: discover_latest always returns (it never raises); it returns fallback
\* when the fetch failed or no file name of the listing matches, and otherwise
\* a matched version that no matched version exceeds as a tuple of integers.
C5_DiscoverLatestGreatestTuple ==
    /\ dl.state = "ready"
       => \A p \in Projects :
             /\ discover_latest(p, DEFAULT_BISON_FALLBACK, dl.fetch, dl.listing) # {}
             /\ \A o \in discover_latest(p, DEFAULT_BISON_FALLBACK, dl.fetch, dl.listing) :
                   o.kind = "return"
    /\ dl.state # "raised"
    /\ (dl.state = "returned" /\ dl.call = "discover_latest")
       => LET matched == MatchedVersions(dl.project, dl.listing)
          IN IF dl.fetch # "ok" \/ matched = {}
             THEN dl.result = dl.fallback
             ELSE /\ dl.result \in matched
                  /\ \A w \in matched : TupleLE(_version_key(w), _version_key(dl.result))

\* C5 witness: the listing holds 3.7.1, 3.8.2 and 3.10.0 and 3.10.0 is returned.
C5_Witness ==
    /\ dl.state = "returned"
    /\ dl.call = "discover_latest"
    /\ dl.project = "bison"
    /\ Name("bison", <<"3", ".", "7", ".", "1", ".", "tar", ".", "gz">>) \in dl.listing
    /\ Name("bison", <<"3", ".", "8", ".", "2", ".", "tar", ".", "xz">>) \in dl.listing
    /\ Name("bison", <<"3", ".", "1", "0", ".", "0", ".", "tar", ".", "bz2">>) \in dl.listing
    /\ dl.result = <<"3", ".", "1", "0", ".", "0">>

\* The current _build_tar_project call is past its configure test.
PastConfigureTest ==
    \/ pc \in {"pdm_configure", "pdm_make", "pdm_install", "s_configure", "s_make", "s_install"}
    \/ pc = "failed" /\ err \in {"MissingConfigure", "configure", "make", "install"}

\* The install prefix of the current _build_tar_project call.
CurPrefix == IF mode = "pdm" THEN fs.payload ELSE fs.prefix[proj]

\* C6: a _build_tar_project call whose source root holds no configure has
\* raised "Missing configure script", has spawned no child process and has not
\* created its install prefix.
C6_MissingConfigureRaisesFirst ==
    (PastConfigureTest /\ ~PathExists(fs.work.entries, srcRoot \o <<"configure">>))
    => /\ pc = "failed"
       /\ err = "MissingConfigure"
       /\ callSpawns = 0
       /\ ~CurPrefix.exists

\* C6 witness: the bison call of a setuptools build raised for a missing
\* configure after m4 was configured, made and installed.
C6_Witness ==
    /\ mode = "setup"
    /\ proj = "bison"
    /\ pc = "failed"
    /\ err = "MissingConfigure"
    /\ Len(log) = 3
    /\ callSpawns = 0

\* The child processes of one build, in the order of the script.
Pipeline ==
    IF mode = "pdm"
    THEN << <<"bison", "configure">>, <<"bison", "make">>, <<"bison", "install">> >>
    ELSE << <<"m4", "configure">>, <<"m4", "make">>, <<"m4", "install">>,
            <<"bison", "configure">>, <<"bison", "make">>, <<"bison", "install">> >>

\* C7: the child processes of a build run in the order configure, make, make
\* install (m4 before bison, strip last); one of these that exits non-zero is
\* the last child of the build, the build has failed and nothing is staged;
\* staging happens only after the whole pipeline ran.
C7_ChildrenInOrderStopAtFailure ==
    /\ \A i \in 1..Len(log) :
         IF i <= Len(Pipeline)
         THEN <<log[i].proj, log[i].cmd>> = Pipeline[i]
         ELSE log[i].cmd = "strip"
    /\ \A i \in 1..Len(log) :
         (log[i].cmd # "strip" /\ log[i].status # 0)
         => i = Len(log) /\ pc = "failed" /\ ~staged
    /\ staged => Len(log) >= Len(Pipeline)

\* C7 witness: m4's make install exited non-zero; bison was never configured.
C7_Witness ==
    /\ mode = "setup"
    /\ pc = "failed"
    /\ Len(log) = 3
    /\ log[3].status # 0

\* The slots that may hold a source archive.
ArchiveSlots(f) == <<f.vendored, f.cache, f.downloads["m4"], f.downloads["bison"]>>

AfterExtract ==
    pc \in {"pdm_check", "pdm_configure", "pdm_make", "pdm_install",
            "s_check", "s_configure", "s_make", "s_install"}

CurArchive == IF mode = "pdm" THEN fs.cache ELSE fs.downloads[proj]

IsPathPrefix(p, q) == Len(p) <= Len(q) /\ SubSeq(q, 1, Len(p)) = p

\* C9: after an extraction the work directory holds only entries of the
\* archive just extracted, and after staging the payload directory holds only
\* files installed by the current build.
C9_FullReset ==
    /\ AfterExtract
       => \A e \in fs.work.entries : \E m \in CurArchive.members : IsPathPrefix(e.path, m.path)
    /\ (staged /\ pc \in {"packaging", "done"})
       => \A f \in fs.payload.entries : f.gen = builds

\* C9 witness: a second setuptools build has staged its payload, and an entry
\* of the m4 archive, unpacked into the work directory first, is gone from it.
C9_Witness ==
    /\ mode = "setup"
    /\ pc = "done"
    /\ staged
    /\ builds = 2
    /\ fs.payload.entries # {}
    /\ \E m \in fs.downloads["m4"].members : ~PathExists(fs.work.entries, m.path)

\* C10 (as stated): _extract returns target/<name> exactly when the members
\* have one top-level name and it is a directory, and target otherwise.
C10_RootIsTheSingleTopDirectory ==
    ex.state = "returned"
    => LET tops == { m.path[1] : m \in ex.archive.members }
           dirs == { n \in tops : Member(<<n>>, "dir") \in ex.target.entries }
       IN IF Cardinality(tops) = 1 /\ dirs = tops
          THEN ex.root = <<CHOOSE n \in tops : TRUE>>
          ELSE ex.root = <<>>

====
